---- MODULE Spec2Model ----
(***************************************************************************)
(* Outage Watch (src/app.py): the severity classifier, the official-status *)
(* parsers, the cached fetch layer, the crowd-feed mirror fallback, the    *)
(* crowd-signal runs and the parallel poll of the official providers.      *)
(*                                                                         *)
(* Each component has its own specification over its own variables; the    *)
(* variables of the other components stay at their idle values.            *)
(***************************************************************************)
EXTENDS Integers, Sequences, FiniteSets, TLC

VARIABLES
    input, output, calls,               \* one call of a parser or of the classifier
    providers, answers, futures, results, pc,  \* one poll cycle (lines 803-817)
    now, server, urlCache, jsonCache, ret,  \* the cached fetch layer (lines 125-143)
    instances, mirrorRet,               \* one call of fetch_crowd_feed_with_fallback
    item, itemRet,                      \* one entity's pass of the crowd loop
    session, clock, lastRun             \* st.session_state and the crowd runs

parseVars  == <<input, output, calls>>
pollVars   == <<providers, answers, futures, results, pc>>
cacheVars  == <<now, server, urlCache, jsonCache, ret>>
mirrorVars == <<instances, mirrorRet>>
itemVars   == <<item, itemRet>>
crowdVars  == <<session, clock, lastRun>>
vars == <<parseVars, pollVars, cacheVars, mirrorVars, itemVars, crowdVars>>

None == [t |-> "none"]


(***************************************************************************)
(* Generic helpers.                                                        *)
(***************************************************************************)
SeqUpTo(S, n) == UNION {[1..k -> S] : k \in 0..n}

Min(a, b) == IF a <= b THEN a ELSE b

\* Python's s[:n]
Take(s, n) == SubSeq(s, 1, Min(n, Len(s)))

\* Python's "w in s" on text; a text is a sequence of words here
Contains(s, w) == \E i \in 1..(Len(s) - Len(w) + 1) : SubSeq(s, i, i + Len(w) - 1) = w

ContainsAny(s, ws) == \E w \in ws : Contains(s, w)

\* the least element of a set of positions
First(S) == CHOOSE i \in S : \A j \in S : i <= j

(***************************************************************************)
(* Severity classifier, lines 151-166.                                     *)
(***************************************************************************)
major_words == { <<"major", "outage">>, <<"outage">>, <<"unavailable">>, <<"down">> }

degraded_words == { <<"degraded">>, <<"investigating">>, <<"identified">>, <<"monitoring">>,
                    <<"issue">>, <<"error">>, <<"latency">>, <<"impact">>, <<"connectivity">>,
                    <<"disruption">>, <<"partial">> }

resolved_words == { <<"resolved">>, <<"operating", "normally">>, <<"recovered">>, <<"restored">> }

\* a faulty variant: the trouble keywords are looked at before the resolution keywords
rss_level_major_first(title_lower) ==
    IF ContainsAny(title_lower, major_words) THEN "major"
    ELSE IF ContainsAny(title_lower, resolved_words) THEN "ok"
    ELSE IF ContainsAny(title_lower, degraded_words) THEN "degraded"
    ELSE "ok"

rss_level_from_title(title_lower) ==
    IF ContainsAny(title_lower, resolved_words) THEN "ok"
    ELSE IF ContainsAny(title_lower, major_words) THEN "major"
    ELSE IF ContainsAny(title_lower, degraded_words) THEN "degraded"
    ELSE "ok"

(***************************************************************************)
(* JSON values as the parsers see them after fetch_json (line 143).  A     *)
(* string is a text (a sequence of words); a dict is a function from its   *)
(* keys, a key mapped to Absent being a key the dict does not have.        *)
(***************************************************************************)
JNull == [t |-> "null"]

Absent == [t |-> "absent"]

JBool(b) == [t |-> "bool", b |-> b]

JNum(n) == [t |-> "num", n |-> n]

JStr(s) == [t |-> "str", s |-> s]

JList(xs) == [t |-> "list", items |-> xs]

JDict(f) == [t |-> "dict", f |-> f]

EmptyDict == JDict([k \in {} |-> JNull])

\* Python's truth value of a JSON value
Truthy(v) ==
    CASE v.t = "bool" -> v.b
      [] v.t = "num"  -> v.n # 0
      [] v.t = "str"  -> v.s # <<>>
      [] v.t = "list" -> v.items # <<>>
      [] v.t = "dict" -> \E k \in DOMAIN v.f : v.f[k] # Absent
      [] OTHER        -> FALSE

\* Python's "a or b"
PyOr(a, b) == IF Truthy(a) THEN a ELSE b

\* d.get(k, default) and d.get(k) on a dict d
DictGet(d, k, default) == IF k \in DOMAIN d.f /\ d.f[k] # Absent THEN d.f[k] ELSE default

Get(d, k) == DictGet(d, k, JNull)

HasKey(d, k) == k \in DOMAIN d.f /\ d.f[k] # Absent

\* "v in {...}" on a set of strings raises TypeError for an unhashable v
Hashable(v) == v.t \notin {"list", "dict"}

StrIn(v, S) == v.t = "str" /\ v.s \in S

\* str.lower() / str.upper(), word by word
LowerWord(w) ==
    CASE w = "High" -> "high"
      [] w = "Major" -> "major"
      [] w = "SERVICE_OUTAGE" -> "service_outage"
      [] w = "Reports" -> "reports"
      [] w = "Report" -> "report"
      [] w = "Stripe" -> "stripe"
      [] w = "Update" -> "update"
      [] w = "Healthy" -> "healthy"
      [] w = "Outage" -> "outage"
      [] w = "Critical" -> "critical"
      [] OTHER -> w

UpperWord(w) ==
    CASE w = "service_outage" -> "SERVICE_OUTAGE"
      [] w = "high" -> "HIGH"
      [] OTHER -> w

Lower(s) == [i \in DOMAIN s |-> LowerWord(s[i])]

\* html.unescape, word by word
UnescapeWord(w) ==
    CASE w = "&#45;" -> "-"
      [] w = "&amp;" -> "&"
      [] OTHER -> w

Unescape(s) == [i \in DOMAIN s |-> UnescapeWord(s[i])]

Upper(s) == [i \in DOMAIN s |-> UpperWord(s[i])]

(***************************************************************************)
(* What a parser gives: a (level, details) pair, or an exception that      *)
(* leaves the parser.  What fetch_json gives: the decoded payload, or an   *)
(* exception (fetch or JSON decoding).                                     *)
(***************************************************************************)
Result(level, details) == [raised |-> FALSE, level |-> level, details |-> details]

Raised(what) == [raised |-> TRUE, error |-> what]

Fetched(data) == [ok |-> TRUE, data |-> data]

FetchFailed == [ok |-> FALSE]

(***************************************************************************)
(* summarize_statuspage, lines 171-190.                                    *)
(***************************************************************************)
MajorIndicators == { <<"major">>, <<"critical">> }

ImpactHit(i) == i.t = "dict" /\ StrIn(Get(i, "impact"), MajorIndicators)

ImpactBad(i) == i.t # "dict" \/ ~Hashable(Get(i, "impact"))

\* line 180: any(...) raises when it reaches an incident it cannot evaluate
\* before it reaches a hit
ImpactAnyRaises(xs) ==
    \E j \in DOMAIN xs : ImpactBad(xs[j]) /\ \A k \in 1..(j - 1) : ~ImpactHit(xs[k])

StatuspageDetail(i) ==
    [title |-> DictGet(i, "name", JStr(<<"Incident">>)),
     impact |-> DictGet(i, "impact", JStr(<<"n/a">>)),
     upd |-> PyOr(PyOr(Get(i, "updated_at"), Get(i, "created_at")), JStr(<<>>))]

\* a faulty variant: the scheduled maintenances are left out
statuspage_incidents_only(data) == PyOr(Get(data, "incidents"), JList(<<>>)).items

\* line 178: incidents followed by scheduled maintenances
statuspage_incidents(data) ==
    PyOr(Get(data, "incidents"), JList(<<>>)).items
        \o PyOr(Get(data, "scheduled_maintenances"), JList(<<>>)).items

summarize_statuspage(fetch) ==
    IF ~fetch.ok THEN Result("unknown", <<"Fetch error">>)
    ELSE LET data == fetch.data IN
    IF data.t # "dict" THEN Raised("AttributeError")
    ELSE LET st == PyOr(DictGet(data, "status", EmptyDict), EmptyDict) IN
    IF st.t # "dict" THEN Raised("AttributeError")
    ELSE LET indicator == DictGet(st, "indicator", JStr(<<"none">>)) IN
    IF \/ PyOr(Get(data, "incidents"), JList(<<>>)).t # "list"
       \/ PyOr(Get(data, "scheduled_maintenances"), JList(<<>>)).t # "list"
    THEN Raised("TypeError")
    ELSE LET incidents == statuspage_incidents(data) IN
    IF ~Hashable(indicator) THEN Raised("TypeError")
    ELSE IF ~StrIn(indicator, MajorIndicators) /\ ImpactAnyRaises(incidents)
    THEN Raised("AttributeError")
    ELSE LET major == StrIn(indicator, MajorIndicators)
                        \/ \E j \in DOMAIN incidents : ImpactHit(incidents[j])
             degraded == StrIn(indicator, {<<"minor">>}) \/ incidents # <<>>
             level == IF major THEN "major" ELSE IF degraded THEN "degraded" ELSE "ok"
             shown == Take(incidents, 3)
         IN IF \E j \in DOMAIN shown : shown[j].t # "dict" THEN Raised("AttributeError")
            ELSE Result(level, [j \in DOMAIN shown |-> StatuspageDetail(shown[j])])

(***************************************************************************)
(* summarize_gcp_incidents, lines 247-270.                                 *)
(***************************************************************************)
\* a faulty variant: a termination field counts by being present, whatever its value
gcp_is_active_by_presence(inc) == ~HasKey(inc, "end") /\ ~HasKey(inc, "resolved")

\* line 256: not (inc.get("end") or inc.get("resolved"))
gcp_is_active(inc) == ~Truthy(PyOr(Get(inc, "end"), Get(inc, "resolved")))

\* line 265, before .lower()
gcp_severity(inc) == PyOr(PyOr(Get(inc, "severity"), Get(inc, "impact")), JStr(<<>>))

\* line 266
HighSeverity(severity) == Contains(severity, <<"high">>) \/ Contains(severity, <<"major">>)

GcpDetail(inc) ==
    [title |-> PyOr(PyOr(Get(inc, "title"), Get(inc, "service_name")), JStr(<<"Incident">>)),
     begin |-> PyOr(PyOr(Get(inc, "begin"), Get(inc, "start")), JStr(<<>>)),
     severity |-> Lower(gcp_severity(inc).s)]

\* line 262: the loop that sets the level runs over active[:3]
gcp_examined(active) == Take(active, 3)

summarize_gcp_incidents(fetch) ==
    IF ~fetch.ok THEN Result("unknown", <<"Fetch/parse error">>)
    ELSE LET incidents == fetch.data IN
    IF ~Truthy(incidents) THEN Result("ok", <<>>)
    ELSE IF incidents.t # "list" THEN Raised("TypeError")
    ELSE IF \E j \in DOMAIN incidents.items : incidents.items[j].t # "dict"
    THEN Raised("AttributeError")
    ELSE LET active == SelectSeq(incidents.items, gcp_is_active) IN
    IF active = <<>> THEN Result("ok", <<>>)
    ELSE LET shown == gcp_examined(active) IN
    IF \E j \in DOMAIN shown : gcp_severity(shown[j]).t # "str" THEN Raised("AttributeError")
    ELSE Result(IF \E j \in DOMAIN shown : HighSeverity(Lower(gcp_severity(shown[j]).s))
                THEN "major" ELSE "degraded",
                [j \in DOMAIN shown |-> GcpDetail(shown[j])])

(***************************************************************************)
(* summarize_google_workspace_incidents, lines 272-297.                    *)
(***************************************************************************)
Whitespace == {" ", "\n"}

\* str.strip()
Strip(s) ==
    LET keep == {i \in DOMAIN s : s[i] \notin Whitespace} IN
    IF keep = {} THEN <<>>
    ELSE SubSeq(s, CHOOSE i \in keep : \A j \in keep : i <= j,
                   CHOOSE i \in keep : \A j \in keep : j <= i)

\* str.splitlines()[0] of a text that is not empty
FirstLine(s) ==
    LET nl == {i \in DOMAIN s : s[i] = "\n"} IN
    IF nl = {} THEN s ELSE SubSeq(s, 1, (CHOOSE i \in nl : \A j \in nl : i <= j) - 1)

\* line 281: not i.get("end")
gws_is_active(i) == ~Truthy(Get(i, "end"))

gws_most(inc) == PyOr(Get(inc, "most_recent_update"), EmptyDict)

gws_status(inc) == PyOr(Get(gws_most(inc), "status"), JStr(<<>>))

\* line 288-291: what makes the loop body raise
GwsBad(inc) ==
    \/ gws_most(inc).t # "dict"
    \/ gws_status(inc).t # "str"
    \/ /\ Truthy(Get(inc, "external_desc"))
       /\ \/ Get(inc, "external_desc").t # "str"
          \/ Strip(Get(inc, "external_desc").s) = <<>>

\* the descriptions of the model are shorter than the 120 characters of line 292
GwsDetail(inc) ==
    [title |-> IF Truthy(Get(inc, "external_desc"))
               THEN FirstLine(Strip(Get(inc, "external_desc").s))
               ELSE <<"Google", "Workspace", "incident">>,
     status |-> Upper(gws_status(inc).s),
     begin |-> PyOr(Get(inc, "begin"), JStr(<<>>))]

summarize_google_workspace_incidents(fetch) ==
    IF ~fetch.ok THEN Result("unknown", <<"Fetch/parse error">>)
    ELSE LET incidents == fetch.data IN
    IF ~Truthy(incidents) THEN Result("ok", <<>>)
    ELSE IF incidents.t # "list" THEN Raised("TypeError")
    ELSE IF \E j \in DOMAIN incidents.items : incidents.items[j].t # "dict"
    THEN Raised("AttributeError")
    ELSE LET active == SelectSeq(incidents.items, gws_is_active) IN
    IF active = <<>> THEN Result("ok", <<>>)
    ELSE LET shown == Take(active, 3) IN
    IF \E j \in DOMAIN shown : GwsBad(shown[j]) THEN Raised("AttributeError")
    ELSE Result(IF \E j \in DOMAIN shown : Upper(gws_status(shown[j]).s) = <<"SERVICE_OUTAGE">>
                THEN "major" ELSE "degraded",
                [j \in DOMAIN shown |-> GwsDetail(shown[j])])

(***************************************************************************)
(* summarize_statuspage_try, lines 192-213.  fetches[k] is what fetch_json *)
(* gives for the k-th endpoint.                                            *)
(***************************************************************************)
RECURSIVE statuspage_try_from(_, _)
statuspage_try_from(fetches, k) ==
    IF k > Len(fetches) THEN Result("info", <<"No public JSON endpoints responded">>)
    ELSE IF ~fetches[k].ok THEN statuspage_try_from(fetches, k + 1)
    ELSE LET data == fetches[k].data
             status_obj == IF data.t = "dict" THEN Get(data, "status") ELSE JNull
         IN IF status_obj.t # "dict"
            THEN Result("info", <<"Fetched JSON but format was unexpected">>)
            ELSE LET ind == PyOr(Get(status_obj, "indicator"), JStr(<<"none">>))
                 IN IF ind.t # "str" THEN Raised("AttributeError")
                    ELSE IF Lower(ind.s) \in MajorIndicators
                    THEN Result("major", << [text |-> "Status indicator", indicator |-> Lower(ind.s)] >>)
                    ELSE IF Lower(ind.s) = <<"minor">>
                    THEN Result("degraded", << [text |-> "Status indicator", indicator |-> Lower(ind.s)] >>)
                    ELSE Result("ok", <<>>)

summarize_statuspage_try(fetches) == statuspage_try_from(fetches, 1)

(***************************************************************************)
(* summarize_rss, lines 215-245.  The fetched data is feed.entries; an     *)
(* entry has a title (Absent when the entry has none) and a published      *)
(* time.                                                                   *)
(***************************************************************************)
\* a feed entry as feedparser gives it
Entry(title, published) == [title |-> title, published |-> published]

rss_title(e) == IF e.title = Absent THEN <<"Update">> ELSE Unescape(e.title.s)

\* a faulty variant: every entry of the feed is classified
rss_window_all(entries) == entries

\* line 226
rss_window(entries) == Take(entries, 5)

summarize_rss(fetch) ==
    IF ~fetch.ok THEN Result("unknown", <<"Fetch/parse error">>)
    ELSE IF fetch.data = <<>> THEN Result("ok", <<>>)
    ELSE LET window == rss_window(fetch.data) IN
    IF \E i \in DOMAIN window : window[i].title.t \notin {"absent", "str"}
    THEN Raised("TypeError")
    ELSE LET levels == [i \in DOMAIN window |-> rss_level_from_title(Lower(rss_title(window[i])))]
             details == [i \in DOMAIN window |->
                            [title |-> rss_title(window[i]), ts |-> window[i].published]]
         IN Result(IF \E i \in DOMAIN levels : levels[i] = "major" THEN "major"
                   ELSE IF \E i \in DOMAIN levels : levels[i] = "degraded" THEN "degraded"
                   ELSE "ok",
                   Take(details, 3))

(***************************************************************************)
(* summarize_stripe_json, lines 299-317.  stripe_indicator is None (JNull) *)
(* or the lower-cased indicator; a truthy indicator that is not a string   *)
(* has no lower().                                                         *)
(***************************************************************************)
stripe_status(data) == IF data.t = "dict" THEN Get(data, "status") ELSE JNull

stripe_raises(data) ==
    /\ stripe_status(data).t = "dict"
    /\ PyOr(Get(stripe_status(data), "indicator"), JStr(<<>>)).t # "str"

stripe_indicator(data) ==
    LET status == stripe_status(data)
    IN IF status.t = "dict"
       THEN JStr(Lower(PyOr(Get(status, "indicator"), JStr(<<>>)).s))
       ELSE IF status.t = "str" THEN JStr(Lower(status.s))
       ELSE JNull

summarize_stripe_json(fetch) ==
    IF ~fetch.ok THEN Result("unknown", <<"Fetch/parse error">>)
    ELSE IF stripe_raises(fetch.data) THEN Raised("AttributeError")
    ELSE LET indicator == stripe_indicator(fetch.data)
         IN IF StrIn(indicator, {<<"major">>, <<"critical">>})
            THEN Result("major", <<"See official Stripe status page for details.">>)
            ELSE IF StrIn(indicator, {<<"minor">>, <<"degraded">>})
            THEN Result("degraded", <<"See official Stripe status page for details.">>)
            ELSE Result("ok", <<>>)

(***************************************************************************)
(* summarize_statuspage_html, lines 319-334.  The fetched data is the page *)
(* as a text.                                                              *)
(***************************************************************************)
\* s.split(w, 1)[0]: the text before the first occurrence of w
SplitBefore(s, w) ==
    LET at == {i \in 1..(Len(s) - Len(w) + 1) : SubSeq(s, i, i + Len(w) - 1) = w}
    IN IF at = {} THEN s ELSE SubSeq(s, 1, First(at) - 1)

\* a faulty variant: a page without any known phrase is reported as info
summarize_statuspage_html_as_info(fetch) ==
    IF ~fetch.ok THEN Result("unknown", <<"Fetch error">>)
    ELSE LET top == SplitBefore(Lower(fetch.data), <<"past", "incidents">>)
         IN IF ContainsAny(top, { <<"major", "outage">>, <<"partial", "outage">> })
            THEN Result("major", <<"See official status page for details.">>)
            ELSE IF ContainsAny(top, { <<"degraded", "performance">>, <<"investigating">>,
                                       <<"identified">>, <<"monitoring">> })
            THEN Result("degraded", <<"See official status page for details.">>)
            ELSE IF ContainsAny(top, { <<"all", "systems", "operational">>,
                                       <<"all", "services", "are", "operational">> })
            THEN Result("ok", <<>>)
            ELSE Result("info", <<"See official status page for details.">>)

summarize_statuspage_html(fetch) ==
    IF ~fetch.ok THEN Result("unknown", <<"Fetch error">>)
    ELSE LET top == SplitBefore(Lower(fetch.data), <<"past", "incidents">>)
         IN IF ContainsAny(top, { <<"major", "outage">>, <<"partial", "outage">> })
            THEN Result("major", <<"See official status page for details.">>)
            ELSE IF ContainsAny(top, { <<"degraded", "performance">>, <<"investigating">>,
                                       <<"identified">>, <<"monitoring">> })
            THEN Result("degraded", <<"See official status page for details.">>)
            ELSE IF ContainsAny(top, { <<"all", "systems", "operational">>,
                                       <<"all", "services", "are", "operational">> })
            THEN Result("ok", <<>>)
            ELSE Result("unknown", <<"See official status page for details.">>)

(***************************************************************************)
(* summarize_mastercard_dev_html, lines 336-355.  The page is a text of    *)
(* words and tags; the words of the stripped text are one space apart.     *)
(***************************************************************************)
Tags == {"<div>", "</div>"}

\* the number of characters of a word; "(filler)" is 200 characters of other text
WordLen(w) ==
    CASE w = "unreachable" -> 11
      [] w = "not" -> 3
      [] w = "available" -> 9
      [] w = "partially" -> 9
      [] w = "degraded" -> 8
      [] w = "healthy" -> 7
      [] w = "(filler)" -> 200
      [] OTHER -> 5

\* line 343: the tags are taken out, the white space is collapsed, lower case
page_text(html) == Lower(SelectSeq(html, LAMBDA w : w \notin Tags))

\* len(text)
TextLen(s) ==
    LET f[n \in 0..Len(s)] == IF n = 0 THEN 0 ELSE f[n - 1] + WordLen(s[n])
    IN IF s = <<>> THEN 0 ELSE f[Len(s)] + Len(s) - 1

summarize_mastercard_dev_html(fetch) ==
    IF ~fetch.ok THEN Result("unknown", <<"Fetch error">>)
    ELSE LET text == page_text(fetch.data)
         IN IF TextLen(text) < 200
            THEN Result("info", <<"Status page is likely JS-driven">>)
            ELSE IF ContainsAny(text, { <<"unreachable">>, <<"not", "available">> })
            THEN Result("major", <<"One or more services reported as Unreachable/Not available">>)
            ELSE IF ContainsAny(text, { <<"partially", "degraded">>, <<"degraded">> })
            THEN Result("degraded", <<"One or more services reported as Partially Degraded">>)
            ELSE IF Contains(text, <<"healthy">>) THEN Result("ok", <<>>)
            ELSE Result("info", <<"Unable to classify from page text">>)

(***************************************************************************)
(* summarize_link_only and summarize, lines 357-383.  `fetch` is what the  *)
(* provider's url answers when the parser fetches it (for statuspage_try,  *)
(* what each of the two endpoints answers).                                *)
(***************************************************************************)
summarize_link_only(provider) ==
    Result("info", << IF provider.note # "" THEN provider.note
                      ELSE "See official status page." >>)

\* a faulty variant: a kind that is not dispatched on raises
summarize_unsupported_raises(provider, fetch) ==
    CASE provider.kind = "statuspage" -> summarize_statuspage(fetch)
      [] provider.kind = "statuspage_try" -> summarize_statuspage_try(fetch)
      [] provider.kind = "rss" -> summarize_rss(fetch)
      [] provider.kind = "gcp_incidents" -> summarize_gcp_incidents(fetch)
      [] provider.kind = "gws_incidents_json" -> summarize_google_workspace_incidents(fetch)
      [] provider.kind = "stripe_json" -> summarize_stripe_json(fetch)
      [] provider.kind = "statuspage_html" -> summarize_statuspage_html(fetch)
      [] provider.kind = "mastercard_dev_html" -> summarize_mastercard_dev_html(fetch)
      [] provider.kind = "link_only" -> summarize_link_only(provider)
      [] OTHER -> Raised("UnsupportedKind")

summarize(provider, fetch) ==
    CASE provider.kind = "statuspage" -> summarize_statuspage(fetch)
      [] provider.kind = "statuspage_try" -> summarize_statuspage_try(fetch)
      [] provider.kind = "rss" -> summarize_rss(fetch)
      [] provider.kind = "gcp_incidents" -> summarize_gcp_incidents(fetch)
      [] provider.kind = "gws_incidents_json" -> summarize_google_workspace_incidents(fetch)
      [] provider.kind = "stripe_json" -> summarize_stripe_json(fetch)
      [] provider.kind = "statuspage_html" -> summarize_statuspage_html(fetch)
      [] provider.kind = "mastercard_dev_html" -> summarize_mastercard_dev_html(fetch)
      [] provider.kind = "link_only" -> summarize_link_only(provider)
      [] OTHER -> Result("unknown", <<"Unsupported provider kind">>)

\* the kinds that summarize dispatches on, lines 364-381
KnownKinds ==
    { "statuspage", "statuspage_try", "rss", "gcp_incidents", "gws_incidents_json",
      "stripe_json", "statuspage_html", "mastercard_dev_html", "link_only" }

\* the number of calls of fetch_json / fetch_url_with_time that summarize(provider)
\* makes: each fetching parser calls once (lines 173, 217, 249, 274, 301, 321, 338),
\* summarize_statuspage_try calls per endpoint up to the first that answers (line 198),
\* summarize_link_only and the fall-through of line 383 call nothing
fetch_calls(provider, fetch) ==
    IF provider.kind \notin KnownKinds \/ provider.kind = "link_only" THEN 0
    ELSE IF provider.kind = "statuspage_try"
    THEN LET ok == {k \in DOMAIN fetch : fetch[k].ok}
         IN IF ok = {} THEN Len(fetch) ELSE First(ok)
    ELSE 1

(***************************************************************************)
(* Inputs of the classifier and of the parsers.                            *)
(***************************************************************************)
MaxTitleLen == 3

Words == { "resolved", "operating", "normally", "recovered", "restored",
           "major", "outage", "unavailable", "down",
           "degraded", "investigating", "identified", "monitoring", "issue", "error",
           "latency", "impact", "connectivity", "disruption", "partial",
           "update" }

TextInputs(n) == { [tag |-> "text", text |-> s] : s \in SeqUpTo(Words, n) }

\* Statuspage summaries: a status object, incidents, scheduled maintenances
MaxStatusIncidents == 2

MaxMaintenances == 1

IndicatorVals ==
    { Absent, JStr(<<"none">>), JStr(<<"minor">>), JStr(<<"major">>), JStr(<<"critical">>) }

StatusVals == { Absent, JNull, JStr(<<"up">>) } \cup { JDict([indicator |-> x]) : x \in IndicatorVals }

ImpactVals == { Absent, JStr(<<"minor">>), JStr(<<"major">>), JStr(<<"critical">>) }

StatusIncidents == { JDict([impact |-> x]) : x \in ImpactVals } \cup { JStr(<<"x">>) }

MaintenanceItems == { JDict([impact |-> x]) : x \in { Absent, JStr(<<"major">>) } }

IncidentLists(items, n) == { Absent, JNull } \cup { JList(xs) : xs \in SeqUpTo(items, n) }

StatuspagePayloads(n, m) ==
    { JDict([status |-> st, incidents |-> inc, scheduled_maintenances |-> sm]) :
        st \in StatusVals,
        inc \in IncidentLists(StatusIncidents, n),
        sm \in IncidentLists(MaintenanceItems, m) }
    \cup { JList(<<>>) }

\* Incident arrays: short arrays of incidents with every kind of termination field,
\* and longer arrays of incidents that differ in severity
MaxRichIncidents == 1

MaxIncidents == 4

TermVals ==
    { Absent, JStr(<<"2024-01-01">>), JBool(TRUE), JStr(<<>>), JNull, JBool(FALSE), JNum(0) }

GcpRichIncidents ==
    { JDict([end |-> e, resolved |-> r, severity |-> sv]) :
        e \in TermVals, r \in TermVals, sv \in { Absent, JStr(<<"High">>) } }

SeverityImpact ==
    { <<Absent, Absent>>, <<JStr(<<"low">>), Absent>>, <<JStr(<<"High">>), Absent>>,
      <<Absent, JStr(<<"Major", "impact">>)>> }

GcpLeanIncidents ==
    { JDict([end |-> e, severity |-> si[1], impact |-> si[2]]) :
        e \in { Absent, JStr(<<"2024-01-01">>) }, si \in SeverityImpact }

GcpMalformed ==
    { JNull, EmptyDict, JDict([incidents |-> JList(<<>>)]), JNum(5),
      JList(<<JStr(<<"x">>)>>), JList(<<JDict([severity |-> JNum(3)])>>) }

GcpPayloads(r, n) ==
    { JList(xs) : xs \in SeqUpTo(GcpRichIncidents, r) }
    \cup { JList(xs) : xs \in SeqUpTo(GcpLeanIncidents, n) }
    \cup GcpMalformed

GwsUpdates ==
    { Absent, JDict([status |-> JStr(<<"SERVICE_OUTAGE">>)]),
      JDict([status |-> JStr(<<"SERVICE_DISRUPTION">>)]) }

GwsRichIncidents ==
    { JDict([end |-> e, resolved |-> r, most_recent_update |-> u]) :
        e \in TermVals, r \in { Absent, JBool(TRUE) }, u \in GwsUpdates }

GwsMalformed ==
    { JNull, JDict([incidents |-> JList(<<>>)]), JList(<<JNull>>),
      JList(<<JDict([most_recent_update |-> JStr(<<"x">>)])>>),
      JList(<<JDict([external_desc |-> JStr(<<" ">>)])>>),
      JList(<<JDict([external_desc |-> JStr(<<"Gmail", "delays", "\n", "more">>),
                     most_recent_update |-> JDict([status |-> JStr(<<"service_outage">>)])])>>) }

GwsPayloads(r) == { JList(xs) : xs \in SeqUpTo(GwsRichIncidents, r) } \cup GwsMalformed

Fetches(payloads) == { FetchFailed } \cup { Fetched(d) : d \in payloads }

Descriptor(kind, note) == [name |-> "P", kind |-> kind, note |-> note]

\* Status endpoints tried in turn
TryFetches ==
    { FetchFailed, Fetched(JList(<<>>)), Fetched(JDict([status |-> JStr(<<"up">>)])) }
    \cup { Fetched(JDict([status |-> JDict([indicator |-> x])])) :
            x \in IndicatorVals \cup { JStr(<<"Critical">>), JNum(5) } }

TryInputs ==
    { [tag |-> "provider", provider |-> Descriptor("statuspage_try", ""), fetch |-> <<a, b>>] :
        a \in TryFetches, b \in TryFetches }

\* Feeds: longer feeds over three titles, one-entry feeds over more kinds of title
MaxFeedEntries == 6

RssTitles == { JStr(<<"major", "outage">>), JStr(<<"degraded">>), JStr(<<"update">>) }

RssWideTitles ==
    RssTitles \cup { JStr(<<"resolved", "outage">>), JStr(<<"Outage">>), Absent, JNum(5),
                     JStr(<<"issue", "&amp;", "latency">>) }

RssFeeds(n) ==
    SeqUpTo({ Entry(x, "Mon") : x \in RssTitles }, n)
    \cup SeqUpTo({ Entry(x, "") : x \in RssWideTitles }, 1)

StripeStatus ==
    { Absent, JNull, JStr(<<"Major">>), JStr(<<"degraded">>), JStr(<<"operational">>), JNum(5) }
    \cup { JDict([indicator |-> y]) :
            y \in IndicatorVals \cup { JStr(<<"Critical">>), JStr(<<"degraded">>), JNum(5), JNum(0) } }

StripePayloads == { JNull, JList(<<>>) } \cup { JDict([status |-> x]) : x \in StripeStatus }

\* Pages: up to MaxChunks pieces of text one after the other
MaxChunks == 3

RECURSIVE Flatten(_)
Flatten(chunks) == IF chunks = <<>> THEN <<>> ELSE Head(chunks) \o Flatten(Tail(chunks))

Pages(chunks, n) == { Flatten(cs) : cs \in SeqUpTo(chunks, n) }

StatusPageChunks ==
    { <<"major", "outage">>, <<"partial", "outage">>, <<"degraded", "performance">>,
      <<"investigating">>, <<"past", "incidents">>, <<"all", "systems", "operational">>,
      <<"all", "services", "are", "operational">>, <<"Major", "Outage">>, <<"welcome">> }

MastercardChunks ==
    { <<"unreachable">>, <<"not", "available">>, <<"partially", "degraded">>, <<"Healthy">>,
      <<"(filler)">>, <<"<div>">>, <<"welcome">> }

ProviderInputs(kind, payloads) ==
    { [tag |-> "provider", provider |-> Descriptor(kind, ""), fetch |-> f] : f \in Fetches(payloads) }

\* providers whose parser makes no fetch: link_only, and a kind that summarize does not know
UnfetchedInputs ==
    { [tag |-> "provider", provider |-> Descriptor(k, n), fetch |-> f] :
        k \in { "link_only", "atom", "" }, n \in { "", "Public status page only." },
        f \in { FetchFailed, Fetched(JDict([status |-> JDict([indicator |-> JStr(<<"major">>)])])) } }


\* the variables of the other components stay idle
ParseInit ==
    /\ \/ input \in TextInputs(MaxTitleLen)
       \/ input \in ProviderInputs("statuspage",
                                   StatuspagePayloads(MaxStatusIncidents, MaxMaintenances))
       \/ input \in ProviderInputs("gcp_incidents", GcpPayloads(MaxRichIncidents, MaxIncidents))
       \/ input \in ProviderInputs("gws_incidents_json", GwsPayloads(MaxRichIncidents))
       \/ input \in TryInputs
       \/ input \in ProviderInputs("rss", RssFeeds(MaxFeedEntries))
       \/ input \in ProviderInputs("stripe_json", StripePayloads)
       \/ input \in ProviderInputs("statuspage_html", Pages(StatusPageChunks, MaxChunks))
       \/ input \in ProviderInputs("mastercard_dev_html", Pages(MastercardChunks, MaxChunks))
       \/ input \in UnfetchedInputs
    /\ output = None
    /\ calls = 0
    /\ providers = <<>> /\ answers = <<>> /\ futures = <<>> /\ results = <<>> /\ pc = "idle"
    /\ now = 0 /\ server = None /\ urlCache = None /\ jsonCache = None /\ ret = None
    /\ instances = <<>> /\ mirrorRet = None
    /\ item = None /\ itemRet = None
    /\ session = None /\ clock = 0 /\ lastRun = None

\* one call of _rss_level_from_title
Classify ==
    /\ input.tag = "text"
    /\ output = None
    /\ output' = [level |-> rss_level_from_title(input.text)]
    /\ UNCHANGED <<input, calls>>

\* one call of summarize(provider)
Summarize ==
    /\ input.tag = "provider"
    /\ output = None
    /\ output' = summarize(input.provider, input.fetch)
    /\ calls' = fetch_calls(input.provider, input.fetch)
    /\ UNCHANGED input

ParseNext ==
    \/ Classify /\ UNCHANGED <<pollVars, cacheVars, mirrorVars, itemVars, crowdVars>>
    \/ Summarize /\ UNCHANGED <<pollVars, cacheVars, mirrorVars, itemVars, crowdVars>>

SpecParse == ParseInit /\ [][ParseNext]_vars

Levels == {"major", "degraded", "unknown", "info", "ok"}

\* C7: the classifier returns exactly one level for every text, by first-match
\* precedence: a resolution keyword gives ok whatever else occurs, otherwise a major
\* keyword gives major, otherwise a degraded keyword gives degraded, otherwise ok.
C7_ClassifierPrecedence ==
    (input.tag = "text" /\ output # None) =>
        /\ output.level \in Levels
        /\ ContainsAny(input.text, resolved_words) => output.level = "ok"
        /\ (~ContainsAny(input.text, resolved_words) /\ ContainsAny(input.text, major_words))
              => output.level = "major"
        /\ (~ContainsAny(input.text, resolved_words) /\ ~ContainsAny(input.text, major_words)
              /\ ContainsAny(input.text, degraded_words)) => output.level = "degraded"
        /\ (~ContainsAny(input.text, resolved_words) /\ ~ContainsAny(input.text, major_words)
              /\ ~ContainsAny(input.text, degraded_words)) => output.level = "ok"

\* "outage resolved", with a degraded keyword as well, has been classified
C7_Witness ==
    /\ input.tag = "text"
    /\ output # None
    /\ input.text = <<"partial", "outage", "resolved">>
    /\ output.level = "ok"

Summarized(kind) == input.tag = "provider" /\ input.provider.kind = kind /\ output # None

AllDicts(xs) == \A j \in DOMAIN xs : xs[j].t = "dict"

\* a Statuspage payload with a status indicator and an incident list
StatuspageWellFormed(d) ==
    /\ d.t = "dict"
    /\ Get(d, "status").t = "dict"
    /\ Get(Get(d, "status"), "indicator").t = "str"
    /\ Get(d, "incidents").t = "list"
    /\ AllDicts(Get(d, "incidents").items)
    /\ Get(d, "scheduled_maintenances").t = "list" => AllDicts(Get(d, "scheduled_maintenances").items)

StatusRule(indicator, list) ==
    IF indicator \in MajorIndicators
          \/ \E j \in DOMAIN list : StrIn(Get(list[j], "impact"), MajorIndicators)
    THEN "major"
    ELSE IF indicator = <<"minor">> \/ list # <<>> THEN "degraded"
    ELSE "ok"

Maintenances(d) ==
    IF Get(d, "scheduled_maintenances").t = "list" THEN Get(d, "scheduled_maintenances").items
    ELSE <<>>

\* C8 as stated: the level follows from the indicator and the incident list alone.
C8_Original ==
    (Summarized("statuspage") /\ input.fetch.ok /\ StatuspageWellFormed(input.fetch.data)) =>
        /\ ~output.raised
        /\ output.level = StatusRule(Get(Get(input.fetch.data, "status"), "indicator").s,
                                     Get(input.fetch.data, "incidents").items)

\* C8 amended: the level is major if the indicator is major or critical or any incident
\* or scheduled maintenance has impact major or critical; otherwise degraded if the
\* indicator is minor or there is any incident or scheduled maintenance; otherwise ok.
C8_StatuspageLevel ==
    (Summarized("statuspage") /\ input.fetch.ok /\ StatuspageWellFormed(input.fetch.data)) =>
        /\ ~output.raised
        /\ output.level = StatusRule(Get(Get(input.fetch.data, "status"), "indicator").s,
                                     Get(input.fetch.data, "incidents").items
                                        \o Maintenances(input.fetch.data))

\* indicator none, no incident, one scheduled maintenance: degraded
C8_Witness ==
    /\ Summarized("statuspage")
    /\ input.fetch.ok
    /\ StatuspageWellFormed(input.fetch.data)
    /\ Get(Get(input.fetch.data, "status"), "indicator").s = <<"none">>
    /\ Get(input.fetch.data, "incidents").items = <<>>
    /\ Maintenances(input.fetch.data) # <<>>
    /\ ~output.raised
    /\ output.level = "degraded"

\* an incident array whose elements are all objects, parsed without an exception
ArrayParsed(kind) ==
    /\ Summarized(kind)
    /\ input.fetch.ok
    /\ input.fetch.data.t = "list"
    /\ AllDicts(input.fetch.data.items)
    /\ ~output.raised

FieldPresent(inc, k) == HasKey(inc, k)

FieldSet(inc, k) == HasKey(inc, k) /\ Truthy(inc.f[k])

\* C9 as stated: the batch is ok exactly when every incident has an "end" or a
\* "resolved" field, whatever the field's value.
C9_Original ==
    \A kind \in { "gcp_incidents", "gws_incidents_json" } :
        ArrayParsed(kind) =>
            (output.level = "ok" <=>
                \A j \in DOMAIN input.fetch.data.items :
                    \/ FieldPresent(input.fetch.data.items[j], "end")
                    \/ FieldPresent(input.fetch.data.items[j], "resolved"))

\* C9 amended: an incident is active exactly when no termination field of it has a
\* truthy value ("end" or "resolved" for the GCP parser, "end" alone for the Workspace
\* parser); the batch is ok exactly when no incident is active.
C9_ActiveRule ==
    /\ ArrayParsed("gcp_incidents") =>
          (output.level = "ok" <=>
              \A j \in DOMAIN input.fetch.data.items :
                  \/ FieldSet(input.fetch.data.items[j], "end")
                  \/ FieldSet(input.fetch.data.items[j], "resolved"))
    /\ ArrayParsed("gws_incidents_json") =>
          (output.level = "ok" <=>
              \A j \in DOMAIN input.fetch.data.items :
                  FieldSet(input.fetch.data.items[j], "end"))

\* a batch whose only incident has "end": null and no "resolved" has been parsed: degraded
C9_Witness ==
    /\ ArrayParsed("gcp_incidents")
    /\ Len(input.fetch.data.items) = 1
    /\ FieldPresent(input.fetch.data.items[1], "end")
    /\ input.fetch.data.items[1].f["end"] = JNull
    /\ ~FieldPresent(input.fetch.data.items[1], "resolved")
    /\ output.level = "degraded"

\* C10 as stated: with an active incident the level is major if any active incident, at
\* any position, has a high-severity keyword in its severity/impact text, else degraded;
\* with none it is ok; at most 3 details.
C10_Escalation ==
    ArrayParsed("gcp_incidents") =>
        LET active == SelectSeq(input.fetch.data.items, gcp_is_active) IN
        (\A j \in DOMAIN active : gcp_severity(active[j]).t = "str") =>
            /\ Len(output.details) <= 3
            /\ output.level =
                  IF active = <<>> THEN "ok"
                  ELSE IF \E j \in DOMAIN active : HighSeverity(Lower(gcp_severity(active[j]).s))
                       THEN "major"
                  ELSE "degraded"

\* C11 as stated: for every payload, whatever its structure, a parser reached through
\* summarize returns a (level, details) pair and no exception leaves it.
C11_NeverRaises ==
    (input.tag = "provider" /\ input.provider.kind \in KnownKinds /\ output # None) =>
        /\ ~output.raised
        /\ output.level \in Levels

\* a feed that was fetched, with titles as feedparser gives them, has been summarized
FeedParsed ==
    /\ Summarized("rss")
    /\ input.fetch.ok
    /\ \A i \in DOMAIN input.fetch.data : input.fetch.data[i].title.t \in { "absent", "str" }

\* the classifier's level for the title of one entry
EntryLevel(e) == rss_level_from_title(Lower(rss_title(e)))

\* C16: the level of a fetched feed is the most severe classifier level over the titles
\* of its first 5 entries (major over degraded over ok), and is what the feed cut after
\* its fifth entry gives; an empty feed gives ok and no detail; the details are the
\* first 3 entries, in feed order.
C16_FeedWindow ==
    FeedParsed =>
        LET entries == input.fetch.data
            first5 == 1..Min(5, Len(entries))
        IN /\ ~output.raised
           /\ output.level =
                IF \E i \in first5 : EntryLevel(entries[i]) = "major" THEN "major"
                ELSE IF \E i \in first5 : EntryLevel(entries[i]) = "degraded" THEN "degraded"
                ELSE "ok"
           /\ output = summarize(input.provider, Fetched(SubSeq(entries, 1, Min(5, Len(entries)))))
           /\ entries = <<>> => output.details = <<>>
           /\ Len(output.details) = Min(3, Len(entries))
           /\ \A j \in DOMAIN output.details :
                /\ output.details[j].title = rss_title(entries[j])
                /\ output.details[j].ts = entries[j].published

\* a feed of six entries whose sixth title alone reports a major outage: ok, 3 details
C16_Witness ==
    /\ FeedParsed
    /\ Len(input.fetch.data) = 6
    /\ \A i \in 1..5 : EntryLevel(input.fetch.data[i]) = "ok"
    /\ EntryLevel(input.fetch.data[6]) = "major"
    /\ output.level = "ok"
    /\ Len(output.details) = 3

\* the parsers that make exactly one fetch
SingleFetchKinds == KnownKinds \ { "statuspage_try", "link_only" }

\* the phrases that summarize_statuspage_html looks for
StatusPhrases ==
    { <<"major", "outage">>, <<"partial", "outage">>, <<"degraded", "performance">>,
      <<"investigating">>, <<"identified">>, <<"monitoring">>,
      <<"all", "systems", "operational">>, <<"all", "services", "are", "operational">> }

\* the part of a fetched status page before "past incidents" has none of the phrases
NoKnownPhrase(page) ==
    ~ContainsAny(SplitBefore(Lower(page), <<"past", "incidents">>), StatusPhrases)

\* C12 as stated: a returned level is one of the five, and unknown is returned only
\* when the fetch (or the decoding) of the provider's payload failed.
C12_Original ==
    (input.tag = "provider" /\ input.provider.kind \in KnownKinds
        /\ output # None /\ ~output.raised) =>
        /\ output.level \in Levels
        /\ output.level = "unknown" =>
              (input.provider.kind \in SingleFetchKinds /\ ~input.fetch.ok)

\* C12 amended: a returned level is one of the five; unknown is returned exactly when
\* the single fetch of the parser failed, when a fetched status page has none of the
\* known phrases before "past incidents", or when the kind is not a recognised one;
\* a link-only provider and a provider none of whose endpoints answered give info.
C12_LevelReservation ==
    (input.tag = "provider" /\ output # None /\ ~output.raised) =>
        /\ output.level \in Levels
        /\ output.level = "unknown" <=>
              \/ input.provider.kind \notin KnownKinds
              \/ input.provider.kind \in SingleFetchKinds /\ ~input.fetch.ok
              \/ /\ input.provider.kind = "statuspage_html"
                 /\ input.fetch.ok
                 /\ NoKnownPhrase(input.fetch.data)
        /\ input.provider.kind = "link_only" => output.level = "info"
        /\ (input.provider.kind = "statuspage_try"
              /\ \A k \in DOMAIN input.fetch : ~input.fetch[k].ok) => output.level = "info"

\* a status page that was fetched and has no known phrase has been summarized: unknown
C12_Witness ==
    /\ Summarized("statuspage_html")
    /\ input.fetch.ok
    /\ input.fetch.data = <<"welcome">>
    /\ ~output.raised
    /\ output.level = "unknown"
    /\ calls = 1

\* C13 as stated: summarize on a kind that is not recognised fails with an error, it
\* returns no result, and it fetches nothing.
C13_Original ==
    (input.tag = "provider" /\ input.provider.kind \notin KnownKinds /\ output # None) =>
        /\ output.raised
        /\ calls = 0

\* C13 amended: summarize on a kind that is not recognised raises nothing: it returns
\* the level unknown with the one detail "Unsupported provider kind", and it fetches
\* nothing, whatever the provider's url would answer.
C13_UnsupportedKind ==
    (input.tag = "provider" /\ input.provider.kind \notin KnownKinds /\ output # None) =>
        /\ output = Result("unknown", <<"Unsupported provider kind">>)
        /\ calls = 0

\* a provider of kind "atom" whose url would answer has been summarized
C13_Witness ==
    /\ Summarized("atom")
    /\ input.fetch.ok
    /\ ~output.raised
    /\ output.level = "unknown"
    /\ calls = 0


(***************************************************************************)
(* Crowd feeds.  A title is a text whose words are single characters       *)
(* (digits, blanks, punctuation) or whole words; a feed entry has a title  *)
(* (or none) and a publication time.                                       *)
(***************************************************************************)
NoErr == [kind |-> "none"]

HttpError(status) == [kind |-> "http", status |-> status]

TransportError == [kind |-> "transport"]

Served(entries) == [kind |-> "ok", entries |-> entries, fetched_at |-> "12:00:00 UTC"]

\* line 42 and lines 388-389
build_outagereport_feed_url(inst, slug, count) == <<inst, "/outagereport/", slug, count>>

\* line 402
RetryStatuses == {403, 429, 500, 502, 503, 504}

\* a faulty variant: an HTTP error outside the retry list is not remembered
next_last_err_retryable(last_err, e) ==
    IF e.kind = "http" /\ e.status \notin RetryStatuses THEN last_err ELSE e

\* lines 400-409: every branch of the handlers remembers the error
next_last_err(last_err, e) == e

(***************************************************************************)
(* fetch_crowd_feed_with_fallback, lines 391-410.  outcomes[i] is what     *)
(* fetch_url_with_time gives for the i-th instance of RSSHUB_INSTANCES:    *)
(* Served(entries), or the exception it raises.  `contacted` lists the     *)
(* instances tried, in the order tried.  An empty url, instance 0 and an   *)
(* empty fetched_at stand for the None of line 410.                        *)
(***************************************************************************)
RECURSIVE fallback_from(_, _, _, _, _)
fallback_from(outcomes, slug, i, last_err, contacted) ==
    IF i > Len(outcomes)
    THEN [url |-> <<>>, entries |-> <<>>, fetched_at |-> "", inst |-> 0,
          err |-> last_err, contacted |-> contacted]
    ELSE IF outcomes[i].kind = "ok"
    THEN [url |-> build_outagereport_feed_url(i, slug, 10),
          entries |-> outcomes[i].entries,
          fetched_at |-> outcomes[i].fetched_at,
          inst |-> i, err |-> NoErr, contacted |-> Append(contacted, i)]
    ELSE fallback_from(outcomes, slug, i + 1, next_last_err(last_err, outcomes[i]),
                       Append(contacted, i))

fetch_crowd_feed_with_fallback(outcomes, slug) == fallback_from(outcomes, slug, 1, NoErr, <<>>)

(***************************************************************************)
(* The report count of a title, lines 476-489: html.unescape, lower(), and *)
(* the two patterns (\d+)\s+reports? and reports?\s*[:\-]\s*(\d+), the     *)
(* first that matches anywhere in the title being the one used.            *)
(***************************************************************************)
Digits == {"0", "1", "2", "3", "4", "5", "6", "7", "8", "9"}

DigitVal(c) ==
    CASE c = "0" -> 0 [] c = "1" -> 1 [] c = "2" -> 2 [] c = "3" -> 3 [] c = "4" -> 4
      [] c = "5" -> 5 [] c = "6" -> 6 [] c = "7" -> 7 [] c = "8" -> 8 [] c = "9" -> 9

\* int() of a run of digits
RECURSIVE Decimal(_)
Decimal(ds) ==
    IF ds = <<>> THEN 0
    ELSE 10 * Decimal(SubSeq(ds, 1, Len(ds) - 1)) + DigitVal(ds[Len(ds)])

\* the last index of the run of digits that starts at i
RunEnd(s, i) ==
    CHOOSE j \in i..Len(s) :
        /\ \A m \in i..j : s[m] \in Digits
        /\ j = Len(s) \/ s[j + 1] \notin Digits

Blank(s, from, to) == \A m \in from..to : s[m] \in Whitespace

\* words that begin with "report" or "reports" / words that end with them
ReportPrefixed == {"report", "reports", "reported"}

ReportEnding == {"report", "reports"}

\* (\d+)\s+reports? matches with its digits starting at i
Match1At(s, i) ==
    /\ s[i] \in Digits
    /\ \E k \in (RunEnd(s, i) + 1)..(Len(s) - 1) :
          Blank(s, RunEnd(s, i) + 1, k) /\ s[k + 1] \in ReportPrefixed

\* reports?\s*[:\-]\s*(\d+) matches at the word i, its digits starting at q
Match2At(s, i, q) ==
    /\ s[i] \in ReportEnding
    /\ \E m \in (i + 1)..(q - 1) :
          /\ Blank(s, i + 1, m - 1)
          /\ s[m] \in {":", "-"}
          /\ Blank(s, m + 1, q - 1)
    /\ s[q] \in Digits

\* re.search(first pattern) or re.search(second pattern), then int(m.group(1))
report_count(t_lower) ==
    LET m1 == {i \in DOMAIN t_lower : Match1At(t_lower, i)}
        m2 == {i \in DOMAIN t_lower : \E q \in DOMAIN t_lower : Match2At(t_lower, i, q)}
    IN IF m1 # {}
       THEN [found |-> TRUE, n |-> Decimal(SubSeq(t_lower, First(m1), RunEnd(t_lower, First(m1))))]
       ELSE IF m2 # {}
       THEN LET q == CHOOSE q \in DOMAIN t_lower : Match2At(t_lower, First(m2), q)
            IN [found |-> TRUE, n |-> Decimal(SubSeq(t_lower, q, RunEnd(t_lower, q)))]
       ELSE [found |-> FALSE, n |-> 0]

\* lines 475-476
entry_title(e) == IF e.title.t = "str" THEN Unescape(e.title.s) ELSE <<"Update">>

\* a faulty variant: every entry of the feed is looked at
crowd_window_all(entries) == entries

\* line 473: the entries the loop looks at
crowd_window(entries) == Take(entries, 5)

\* lines 473-497, one entry; max_reports is JNull (None) or JNum(n)
scan_entry(acc, e) ==
    LET title == entry_title(e)
        m == report_count(Lower(title))
    IN IF m.found
       THEN IF acc.max_reports = JNull \/ m.n > acc.max_reports.n
            THEN [max_reports |-> JNum(m.n), best_title |-> JStr(title), best_time |-> e.published]
            ELSE acc
       ELSE IF acc.best_title = JNull
            THEN [acc EXCEPT !.best_title = JStr(title), !.best_time = e.published]
            ELSE acc

scan_entries(entries) ==
    LET w == crowd_window(entries)
        f[n \in 0..Len(w)] ==
            IF n = 0 THEN [max_reports |-> JNull, best_title |-> JNull, best_time |-> ""]
            ELSE scan_entry(f[n - 1], w[n])
    IN f[Len(w)]

(***************************************************************************)
(* One pass of the loop of run_crowd_signals_for_group, lines 433-521, for *)
(* the entity s: the check record it appends and the alerts it appends     *)
(* (none or one).  `fault` is where an exception arises inside the try of  *)
(* line 451: "none", "fetch" (in the call of line 452) or "scan" (in lines *)
(* 469-510, reached only with entries).                                    *)
(***************************************************************************)
Fault == [kind |-> "exception"]

prefilled_check(s) ==
    [name |-> s.name, slug |-> s.slug, threshold |-> s.threshold, feed_url |-> <<>>,
     fetched_at |-> "", instance |-> 0, ok |-> FALSE, error |-> NoErr, error_type |-> ""]

\* lines 456-463
updated_check(s, r) ==
    [prefilled_check(s) EXCEPT !.feed_url = r.url,
                               !.fetched_at = r.fetched_at,
                               !.instance = r.inst,
                               !.ok = (r.err = NoErr),
                               !.error = r.err,
                               !.error_type = IF r.err = NoErr THEN "" ELSE r.err.kind]

\* lines 512-516
failed_check(check) == [check EXCEPT !.ok = FALSE, !.error = Fault, !.error_type = "exception"]

\* lines 499-510
crowd_alert(check, acc) ==
    [name |-> check.name, reports |-> acc.max_reports.n, threshold |-> check.threshold,
     title |-> IF acc.best_title = JNull \/ acc.best_title.s = <<>>
               THEN <<"Crowd activity">> ELSE acc.best_title.s,
     time |-> acc.best_time,
     source_link |-> <<"https://outage.report/", check.slug>>,
     feed_url |-> check.feed_url, fetched_at |-> check.fetched_at, instance |-> check.instance]

crowd_item(s, outcomes, fault) ==
    IF fault = "fetch" THEN [check |-> failed_check(prefilled_check(s)), alerts |-> <<>>]
    ELSE LET r == fetch_crowd_feed_with_fallback(outcomes, s.slug)
             check == updated_check(s, r)
         IN IF r.entries = <<>> THEN [check |-> check, alerts |-> <<>>]
            ELSE IF fault = "scan" THEN [check |-> failed_check(check), alerts |-> <<>>]
            ELSE LET acc == scan_entries(r.entries)
                 IN [check |-> check,
                     alerts |-> IF acc.max_reports # JNull /\ acc.max_reports.n >= check.threshold
                                THEN << crowd_alert(check, acc) >> ELSE <<>>]

(***************************************************************************)
(* One call of the mirror fallback, for every assignment of outcomes to    *)
(* NumInstances instances.                                                 *)
(***************************************************************************)
NumInstances == 3

InstanceOutcomes ==
    { Served(<<>>), Served(<<"a">>), Served(<<"b">>),
      HttpError(503), HttpError(429), HttpError(404), TransportError }

\* the variables of the other components stay idle
MirrorInit ==
    /\ instances \in [1..NumInstances -> InstanceOutcomes] /\ mirrorRet = None
    /\ input = None /\ output = None /\ calls = 0
    /\ providers = <<>> /\ answers = <<>> /\ futures = <<>> /\ results = <<>> /\ pc = "idle"
    /\ now = 0 /\ server = None /\ urlCache = None /\ jsonCache = None /\ ret = None
    /\ item = None /\ itemRet = None
    /\ session = None /\ clock = 0 /\ lastRun = None

FetchCrowdFeed ==
    /\ mirrorRet = None
    /\ mirrorRet' = fetch_crowd_feed_with_fallback(instances, "visa")
    /\ UNCHANGED instances

MirrorNext ==
    FetchCrowdFeed /\ UNCHANGED <<parseVars, pollVars, cacheVars, itemVars, crowdVars>>

SpecMirror == MirrorInit /\ [][MirrorNext]_vars

Succeeds(i) == instances[i].kind = "ok"

FirstSuccess(i) == Succeeds(i) /\ \A j \in 1..(i - 1) : ~Succeeds(j)

\* C3: the instances are contacted in list order up to and including the first one that
\* succeeds; its entries and the instance itself are returned; when every instance fails
\* the failure carries the error of the last instance of the list.
C3_MirrorFallback ==
    mirrorRet # None =>
        /\ \A i \in DOMAIN instances :
              FirstSuccess(i) =>
                  /\ mirrorRet.contacted = [k \in 1..i |-> k]
                  /\ mirrorRet.inst = i
                  /\ mirrorRet.entries = instances[i].entries
                  /\ mirrorRet.url = build_outagereport_feed_url(i, "visa", 10)
                  /\ mirrorRet.err = NoErr
        /\ (\A i \in DOMAIN instances : ~Succeeds(i)) =>
              /\ mirrorRet.contacted = [k \in DOMAIN instances |-> k]
              /\ mirrorRet.inst = 0
              /\ mirrorRet.entries = <<>>
              /\ mirrorRet.err = instances[Len(instances)]

\* 503, then 429, then a success: the third instance answered
C3_Witness ==
    /\ mirrorRet # None
    /\ instances[1] = HttpError(503)
    /\ instances[2] = HttpError(429)
    /\ Succeeds(3)
    /\ mirrorRet.inst = 3

(***************************************************************************)
(* The monitored entities (lines 51-87, three of them) and feed entries.   *)
(***************************************************************************)
CROWD_ALLOWLIST ==
    << [group |-> "payments", name |-> "Visa", slug |-> "visa", threshold |-> 30],
       [group |-> "payments", name |-> "PayPal", slug |-> "paypal", threshold |-> 25],
       [group |-> "telecoms", name |-> "Verizon", slug |-> "us/verizon", threshold |-> 35] >>

T42 == <<"Stripe", " ", "-", " ", "4", "2", " ", "reports">>

T27 == <<"Reports", ":", " ", "2", "7">>

T10 == <<"Stripe", " ", "1", "0", " ", "reports">>

CoreEntries == { Entry(JStr(T42), "10:00"), Entry(JStr(T27), "11:00"), Entry(JStr(<<"Update">>), "") }

WideEntries ==
    CoreEntries \cup
    { Entry(JStr(T10), "09:00"),
      Entry(JStr(<<"reports", "-", "3", "0", ",", " ", "5", " ", "Report">>), "09:00"),
      Entry(JStr(<<"report", "&#45;", "3", "1">>), "09:00"),
      Entry(JStr(<<"3", "3", " ", "\n", "reported">>), "09:00"),
      Entry(JStr(<<"reported", ":", "4", "0">>), "09:00"),
      Entry(JStr(<<"4", "2", "reports">>), "09:00"),
      Entry(Absent, "09:00") }

(***************************************************************************)
(* One pass of the crowd loop for one entity: feeds of up to MaxEntries    *)
(* entries behind one instance, and one-entry feeds of every kind of title *)
(* behind failing instances, with and without a fault.                     *)
(***************************************************************************)
MaxEntries == 6

ProbeEntities == { CROWD_ALLOWLIST[1], CROWD_ALLOWLIST[2] }

ItemInputs(n) ==
    { [s |-> e, outcomes |-> << Served(f) >>, fault |-> "none"] :
        e \in ProbeEntities, f \in SeqUpTo(CoreEntries, n) }
    \cup { [s |-> e, outcomes |-> o \o << Served(f) >>, fault |-> x] :
        e \in ProbeEntities, f \in SeqUpTo(WideEntries, 1),
        o \in { <<>>, << HttpError(503) >> }, x \in { "none", "fetch", "scan" } }
    \cup { [s |-> e, outcomes |-> o, fault |-> x] :
        e \in ProbeEntities, o \in { << HttpError(503), TransportError >>, << HttpError(404) >> },
        x \in { "none", "fetch", "scan" } }

\* the variables of the other components stay idle
ItemInit ==
    /\ item \in ItemInputs(MaxEntries) /\ itemRet = None
    /\ input = None /\ output = None /\ calls = 0
    /\ providers = <<>> /\ answers = <<>> /\ futures = <<>> /\ results = <<>> /\ pc = "idle"
    /\ now = 0 /\ server = None /\ urlCache = None /\ jsonCache = None /\ ret = None
    /\ instances = <<>> /\ mirrorRet = None
    /\ session = None /\ clock = 0 /\ lastRun = None

CrowdItem ==
    /\ itemRet = None
    /\ itemRet' = crowd_item(item.s, item.outcomes, item.fault)
    /\ UNCHANGED item

ItemNext == CrowdItem /\ UNCHANGED <<parseVars, pollVars, cacheVars, mirrorVars, crowdVars>>

SpecItem == ItemInit /\ [][ItemNext]_vars

\* the entries of the first instance that serves the feed, when there is one
Fed(outcomes) == \E i \in DOMAIN outcomes : outcomes[i].kind = "ok"

FeedOf(outcomes) == outcomes[First({i \in DOMAIN outcomes : outcomes[i].kind = "ok"})].entries

CountOf(e) == report_count(Lower(entry_title(e)))

\* the entries, among the first 5, whose title yields a count
Counted(entries) == {i \in 1..Min(5, Len(entries)) : CountOf(entries[i]).found}

MaxCount(entries) ==
    CHOOSE n \in {CountOf(entries[i]).n : i \in Counted(entries)} :
        \A i \in Counted(entries) : CountOf(entries[i]).n <= n

\* C5: with the feed fetched, an alert is emitted iff one of the first 5 titles yields a
\* count and the largest such count reaches the threshold; the alert carries that count
\* and the title of the (first) entry that has it; the check record shows no error.
C5_AlertRule ==
    (itemRet # None /\ item.fault = "none" /\ Fed(item.outcomes)) =>
        LET entries == FeedOf(item.outcomes) IN
        /\ itemRet.check.ok /\ itemRet.check.error = NoErr
        /\ Len(itemRet.alerts) <= 1
        /\ itemRet.alerts # <<>> <=>
              (Counted(entries) # {} /\ MaxCount(entries) >= item.s.threshold)
        /\ itemRet.alerts # <<>> =>
              /\ itemRet.alerts[1].reports = MaxCount(entries)
              /\ itemRet.alerts[1].title =
                    entry_title(entries[First({i \in Counted(entries) :
                                               CountOf(entries[i]).n = MaxCount(entries)})])

\* six entries, one count of 27 among the first five and a count of 42 in the sixth:
\* the alert carries 27
C5_Witness ==
    /\ itemRet # None /\ item.fault = "none" /\ Fed(item.outcomes)
    /\ Len(FeedOf(item.outcomes)) = 6
    /\ Counted(FeedOf(item.outcomes)) = {3}
    /\ CountOf(FeedOf(item.outcomes)[6]).found
    /\ CountOf(FeedOf(item.outcomes)[3]).n = 27
    /\ CountOf(FeedOf(item.outcomes)[6]).n = 42
    /\ item.s.threshold = 25
    /\ Len(itemRet.alerts) = 1
    /\ itemRet.alerts[1].reports = 27

(***************************************************************************)
(* The crowd runs: run_crowd_signals_for_group (lines 412-535), the        *)
(* session state (lines 543-558) and safe_run_group (lines 565-660).       *)
(* A world gives, for each entity of the group in allowlist order, what    *)
(* its instances answer and whether processing it raises.                  *)
(***************************************************************************)
\* line 417
group_items(group_name) == SelectSeq(CROWD_ALLOWLIST, LAMBDA s : s.group = group_name)

\* a faulty variant: a check is recorded only when processing the entity did not raise
checks_after_unless_raised(checks, check) ==
    IF check.error_type = "exception" THEN checks ELSE Append(checks, check)

\* lines 519-521: the finally branch records the check on every path
checks_after(checks, check) == Append(checks, check)

\* lines 433-521: the loop over the entities of the group
RECURSIVE crowd_loop(_, _, _, _)
crowd_loop(items, world, i, acc) ==
    IF i > Len(items) THEN acc
    ELSE LET r == crowd_item(items[i], world[i].outcomes, world[i].fault)
         IN crowd_loop(items, world, i + 1,
                       [triggered |-> acc.triggered \o r.alerts,
                        checks |-> checks_after(acc.checks, r.check)])

\* list.sort(key=reports, reverse=True): stable, equal keys keep their order
insert_desc(sorted, x) ==
    LET k == Cardinality({j \in DOMAIN sorted : sorted[j].reports >= x.reports})
    IN SubSeq(sorted, 1, k) \o <<x>> \o SubSeq(sorted, k + 1, Len(sorted))

\* a faulty variant: the alerts stay in the order of the entities
sort_triggered_skipped(triggered) == triggered

\* line 523
sort_triggered(triggered) ==
    LET f[n \in 0..Len(triggered)] == IF n = 0 THEN <<>> ELSE insert_desc(f[n - 1], triggered[n])
    IN f[Len(triggered)]

\* lines 412-535
run_crowd_signals_for_group(group_name, world) ==
    LET acc == crowd_loop(group_items(group_name), world, 1, [triggered |-> <<>>, checks |-> <<>>])
    IN [triggered |-> sort_triggered(acc.triggered), checks |-> acc.checks,
        internal |-> [checks_len_end |-> Len(acc.checks), checkpoint_after_loop |-> TRUE]]

\* lines 544-547: the state of a group before any run; ran_at 0 stands for ""
fresh_state ==
    [ran |-> FALSE, ran_at |-> 0, triggered |-> <<>>, checks |-> <<>>, error |-> "", diag |-> None]

\* lines 645-657; threshold 0, instance 0 and feed_url <<>> stand for ""
runner_check(err) ==
    [name |-> "(runner)", slug |-> "", threshold |-> 0, feed_url |-> <<>>, fetched_at |-> "",
     instance |-> 0, ok |-> FALSE,
     error |-> [kind |-> "runner", text |-> IF err # "" THEN err ELSE "No checks were recorded."],
     error_type |-> IF err # "" THEN "RunnerError" ELSE "NoChecks"]

\* a faulty variant: an empty list of checks is stored as it is
finish_run_without_placeholder(state, items_in_group) ==
    [state EXCEPT
        !.diag = [run_completed |-> TRUE, run_failed |-> state.error # "",
                  items_in_group |-> items_in_group,
                  checks_empty_reason |-> FALSE]]

\* lines 639-657: the finally branch of safe_run_group
finish_run(state, items_in_group) ==
    [state EXCEPT
        !.checks = IF state.checks = <<>> THEN << runner_check(state.error) >> ELSE state.checks,
        !.diag = [run_completed |-> TRUE, run_failed |-> state.error # "",
                  items_in_group |-> items_in_group,
                  checks_empty_reason |-> state.checks = <<>>]]

\* lines 565-660.  The state of the group is initialised whatever it was
\* (lines 578-584), then filled from the run (lines 611-617).  fault = "run" is
\* an exception that leaves the call of line 612, handled by lines 619-628;
\* fault = "crash" is an exception inside the run before any entity is
\* processed, which lines 526-530 catch: the run returns empty lists.
safe_run_group(group_name, world, at, fault) ==
    LET started == [fresh_state EXCEPT !.ran = TRUE, !.ran_at = at]
        items == group_items(group_name)
    IN IF Len(items) = 0
       THEN finish_run([started EXCEPT !.error = "No items found for group"], 0)
       ELSE IF fault = "run"
       THEN finish_run([started EXCEPT !.error = "Exception raised during crowd group run"],
                       Len(items))
       ELSE IF fault = "crash" THEN finish_run(started, Len(items))
       ELSE LET run == run_crowd_signals_for_group(group_name, world)
            IN finish_run([started EXCEPT !.triggered = run.triggered, !.checks = run.checks],
                          Len(items))

\* lines 743-755 read chk, which only the loop over the payments checks
\* (line 740) binds: a script run reaches the poll of lines 804-817 only when
\* the payments group is marked as ran
reaches_poll(s) == s["crowd_payments"].ran

\* line 552
disable_autorefresh(s) == s["crowd_payments"].ran \/ s["crowd_telecoms"].ran

\* a faulty variant: resuming the auto-refresh forgets the stored runs
resume_autorefresh_forgetting(s) == [k \in DOMAIN s |-> fresh_state]

\* lines 554-555
resume_autorefresh(s) == [k \in DOMAIN s |-> [s[k] EXCEPT !.ran = FALSE]]

(***************************************************************************)
(* The specification of the crowd runs.  Each action is one run of the     *)
(* script: a click on a run button (lines 700-706), a click on the resume  *)
(* button (lines 553-556), or a refresh without a click.  lastRun records  *)
(* what the last script run was given and how far it got.                  *)
(***************************************************************************)
MaxClock == 2

T31 == <<"3", "1", " ", "reports">>

\* what one entity's instances answer, and whether processing the entity raises
CrowdCases ==
    { [outcomes |-> << HttpError(503), TransportError >>, fault |-> "none"],
      [outcomes |-> << HttpError(503), Served(<<>>) >>, fault |-> "none"],
      [outcomes |-> << Served(<< Entry(JStr(T42), "Mon") >>) >>, fault |-> "none"],
      [outcomes |-> << TransportError, Served(<< Entry(JStr(T31), "Tue") >>) >>, fault |-> "none"],
      [outcomes |-> << Served(<< Entry(JStr(T42), "Mon") >>) >>, fault |-> "scan"] }

Worlds(group_name) == [1..Len(group_items(group_name)) -> CrowdCases]

Buttons == { <<"crowd_payments", "payments">>, <<"crowd_telecoms", "telecoms">> }

CrowdInit ==
    /\ session = [k \in {"crowd_payments", "crowd_telecoms"} |-> fresh_state]
    /\ clock = 1
    /\ lastRun = [kind |-> "none"]
    /\ input = None /\ output = None /\ calls = 0
    /\ providers = <<>> /\ answers = <<>> /\ futures = <<>> /\ results = <<>> /\ pc = "idle"
    /\ now = 0 /\ server = None /\ urlCache = None /\ jsonCache = None /\ ret = None
    /\ instances = <<>> /\ mirrorRet = None
    /\ item = None /\ itemRet = None

\* lines 700-706: a run button is clicked
RunGroup ==
    \E b \in Buttons : \E world \in Worlds(b[2]) :
        /\ session' = [session EXCEPT ![b[1]] = safe_run_group(b[2], world, clock, "none")]
        /\ lastRun' = [kind |-> "run", key |-> b[1], group |-> b[2], world |-> world,
                       polled |-> reaches_poll(session')]
        /\ UNCHANGED clock

\* lines 553-556: the resume button is shown and clicked; st.rerun() starts the script again
Resume ==
    /\ disable_autorefresh(session)
    /\ session' = resume_autorefresh(session)
    /\ lastRun' = [kind |-> "resume", polled |-> reaches_poll(session')]
    /\ UNCHANGED clock

\* the script runs again without a click
Rerun ==
    /\ lastRun' = [kind |-> "rerun", polled |-> reaches_poll(session)]
    /\ UNCHANGED <<session, clock>>

\* time passes
Tick ==
    /\ clock < MaxClock
    /\ clock' = clock + 1
    /\ UNCHANGED <<session, lastRun>>

CrowdNext ==
    \/ RunGroup /\ UNCHANGED <<parseVars, pollVars, cacheVars, mirrorVars, itemVars>>
    \/ Resume /\ UNCHANGED <<parseVars, pollVars, cacheVars, mirrorVars, itemVars>>
    \/ Rerun /\ UNCHANGED <<parseVars, pollVars, cacheVars, mirrorVars, itemVars>>
    \/ Tick /\ UNCHANGED <<parseVars, pollVars, cacheVars, mirrorVars, itemVars>>

SpecCrowd == CrowdInit /\ [][CrowdNext]_vars

(***************************************************************************)
(* The contract of safe_run_group as a function: calls with the groups of  *)
(* the two buttons and with a group that has no entity, with and without   *)
(* an exception leaving the inner run.                                     *)
(***************************************************************************)
RunnerCalls == Buttons \cup { <<"crowd_telecoms", "cloud">> }

RunnerFaults == { "none", "run", "crash" }

RunnerInit ==
    /\ session = [k \in {"crowd_payments", "crowd_telecoms"} |-> fresh_state]
    /\ clock = 1
    /\ lastRun = [kind |-> "none"]
    /\ input = None /\ output = None /\ calls = 0
    /\ providers = <<>> /\ answers = <<>> /\ futures = <<>> /\ results = <<>> /\ pc = "idle"
    /\ now = 0 /\ server = None /\ urlCache = None /\ jsonCache = None /\ ret = None
    /\ instances = <<>> /\ mirrorRet = None
    /\ item = None /\ itemRet = None

\* one call safe_run_group(state_key, group_name)
CallRunner ==
    \E c \in RunnerCalls : \E world \in Worlds(c[2]) : \E fault \in RunnerFaults :
        /\ session' = [session EXCEPT ![c[1]] = safe_run_group(c[2], world, clock, fault)]
        /\ lastRun' = [kind |-> "call", key |-> c[1], group |-> c[2], world |-> world,
                       fault |-> fault]
        /\ UNCHANGED clock

RunnerNext ==
    \/ CallRunner /\ UNCHANGED <<parseVars, pollVars, cacheVars, mirrorVars, itemVars>>
    \/ Tick /\ UNCHANGED <<parseVars, pollVars, cacheVars, mirrorVars, itemVars>>

SpecRunner == RunnerInit /\ [][RunnerNext]_vars

\* no check of an entity is recorded: the group has no entity, or the inner run
\* raised or crashed before its first entity
NoEntityCheck == Len(group_items(lastRun.group)) = 0 \/ lastRun.fault \in { "run", "crash" }

\* C14: after a call of safe_run_group the group is marked as ran, run_completed is
\* set and the stored list of checks is not empty: when no check of an entity was
\* recorded it is exactly one placeholder, named "(runner)", with ok false and an
\* error text that is not empty; otherwise it is the entities' checks, one each, and
\* no placeholder.
C14_NeverEmptyChecks ==
    lastRun.kind = "call" =>
        LET state == session[lastRun.key]
            items == group_items(lastRun.group)
        IN /\ state.ran /\ state.diag.run_completed
           /\ state.checks # <<>>
           /\ NoEntityCheck =>
                /\ Len(state.checks) = 1
                /\ state.checks[1].name = "(runner)"
                /\ ~state.checks[1].ok
                /\ state.checks[1].error.text # ""
                /\ state.checks[1].error_type \in { "RunnerError", "NoChecks" }
           /\ ~NoEntityCheck =>
                /\ Len(state.checks) = Len(items)
                /\ \A i \in DOMAIN items : state.checks[i].name = items[i].name

\* a call for a group without entities has stored the placeholder alone
C14_Witness ==
    /\ lastRun.kind = "call" /\ lastRun.group = "cloud"
    /\ Len(session[lastRun.key].checks) = 1
    /\ session[lastRun.key].checks[1].name = "(runner)"
    /\ ~session[lastRun.key].checks[1].ok
    /\ session[lastRun.key].checks[1].error_type = "RunnerError"
    /\ session[lastRun.key].diag.run_completed

\* the alerts that a run's stored list holds for one entity
AlertsOf(triggered, name) == SelectSeq(triggered, LAMBDA a : a.name = name)

AllMirrorsFail(c) == c.fault = "none" /\ \A i \in DOMAIN c.outcomes : c.outcomes[i].kind # "ok"

ZeroEntries(c) == c.fault = "none" /\ Fed(c.outcomes) /\ FeedOf(c.outcomes) = <<>>

\* C4: a crowd run over a group stores exactly one check record per entity of the
\* group, in allowlist order, in every case: all mirrors failing (ok false, with the
\* last mirror's error), a feed of zero entries, and an exception while the entity is
\* processed (ok false, with the exception).  A failing entity has no alert, and every
\* entity's check and alerts are what that entity gives on its own, whatever happened
\* to the others.
C4_OneCheckPerEntity ==
    lastRun.kind = "run" =>
        LET items == group_items(lastRun.group)
            world == lastRun.world
            state == session[lastRun.key]
        IN /\ Len(state.checks) = Len(items)
           /\ \A i \in DOMAIN items :
                LET c == world[i]
                    check == state.checks[i]
                    own == crowd_item(items[i], c.outcomes, c.fault)
                IN /\ check.name = items[i].name /\ check.slug = items[i].slug
                   /\ check = own.check
                   /\ AlertsOf(state.triggered, items[i].name) = own.alerts
                   /\ AllMirrorsFail(c) =>
                        /\ ~check.ok /\ check.error = c.outcomes[Len(c.outcomes)]
                        /\ AlertsOf(state.triggered, items[i].name) = <<>>
                   /\ ZeroEntries(c) =>
                        /\ check.ok /\ AlertsOf(state.triggered, items[i].name) = <<>>
                   /\ c.fault # "none" =>
                        /\ ~check.ok /\ check.error = Fault
                        /\ AlertsOf(state.triggered, items[i].name) = <<>>
           /\ Len(state.triggered) <= Len(items)

\* a payments run in which processing the first entity raises and the second
\* entity's feed passes its threshold: two checks, one alert, of the second entity
C4_Witness ==
    /\ lastRun.kind = "run" /\ lastRun.group = "payments"
    /\ lastRun.world[1].fault = "scan"
    /\ Len(session["crowd_payments"].checks) = 2
    /\ ~session["crowd_payments"].checks[1].ok
    /\ session["crowd_payments"].checks[2].ok
    /\ Len(session["crowd_payments"].triggered) = 1
    /\ session["crowd_payments"].triggered[1].name = "PayPal"

\* what a crowd group retains from its last run
Retained(s, k) == <<s[k].triggered, s[k].checks, s[k].ran_at>>

\* C15: in every step, the stored alerts, checks and run time of a crowd group change
\* only when that step is a run triggered for that group, and then the group's state
\* is what the run gives on its own, whatever was stored before; a script run without
\* a click (with its poll cycle), a run of the other group and the resume action
\* leave them as they were.
C15_Retention ==
    [][\A k \in DOMAIN session :
          /\ Retained(session', k) # Retained(session, k) =>
                /\ lastRun'.kind = "run" /\ lastRun'.key = k
          /\ (<<session, lastRun>>' # <<session, lastRun>>
                /\ lastRun'.kind = "run" /\ lastRun'.key = k) =>
                session'[k] = safe_run_group(lastRun'.group, lastRun'.world, clock, "none")
          /\ (<<session, lastRun>>' # <<session, lastRun>>
                /\ lastRun'.kind = "run" /\ lastRun'.key # k) =>
                session'[k] = session[k]
          /\ (lastRun' # lastRun /\ lastRun'.kind \in { "resume", "rerun" }) =>
                Retained(session', k) = Retained(session, k)]_vars

\* the payments group has an alert stored by a run, the auto-refresh was resumed after
\* it, and the alert is still there
C15_Witness ==
    /\ lastRun.kind = "resume"
    /\ ~session["crowd_payments"].ran
    /\ session["crowd_payments"].ran_at = 1
    /\ Len(session["crowd_payments"].triggered) = 2
    /\ Len(session["crowd_payments"].checks) = 2
    /\ clock = 2

\* C17: the alert list that a run stores is a list (empty when no entity reaches its
\* threshold), holds at most one alert per entity of the group, and is in descending
\* order of report count.
C17_AlertsSorted ==
    lastRun.kind = "run" =>
        LET items == group_items(lastRun.group)
            triggered == session[lastRun.key].triggered
            own == [i \in DOMAIN items |->
                        crowd_item(items[i], lastRun.world[i].outcomes, lastRun.world[i].fault)]
        IN /\ triggered \in Seq({ triggered[j] : j \in DOMAIN triggered })
           /\ \A i \in DOMAIN items : Len(AlertsOf(triggered, items[i].name)) <= 1
           /\ \A j \in DOMAIN triggered : \E i \in DOMAIN items : triggered[j].name = items[i].name
           /\ \A a, b \in DOMAIN triggered : a < b => triggered[a].reports >= triggered[b].reports
           /\ (\A i \in DOMAIN items : own[i].alerts = <<>>) <=> triggered = <<>>

\* a payments run in which the first entity has 31 reports and the second 42: the
\* stored list has the second entity's alert first
C17_Witness ==
    /\ lastRun.kind = "run" /\ lastRun.group = "payments"
    /\ Len(session["crowd_payments"].triggered) = 2
    /\ session["crowd_payments"].triggered[1].name = "PayPal"
    /\ session["crowd_payments"].triggered[1].reports = 42
    /\ session["crowd_payments"].triggered[2].name = "Visa"
    /\ session["crowd_payments"].triggered[2].reports = 31

(***************************************************************************)
(* The cached fetch layer, lines 125-143.  Both functions are memoised by  *)
(* st.cache_data(ttl=60): an entry is keyed by the function's arguments    *)
(* (every caller passes the URL alone), is stored when the function        *)
(* returns, never when it raises, and is served while the time is before   *)
(* its expiry.  A miss computes under the entry's lock, so a call is one   *)
(* step.                                                                   *)
(*                                                                         *)
(* server[u].content is what a request for u would be answered with now;   *)
(* server[u].last is the last request for u that was answered, None        *)
(* before the first.                                                       *)
(***************************************************************************)
TTL == 60

\* a faulty variant: an entry is served however old it is
fresh_forever(entry, t) == entry # None

\* st.cache_data(ttl=60), lines 125 and 140
fresh(entry, t) == entry # None /\ t < entry.expires

\* lines 126-138 on a miss; ok says whether requests.get and raise_for_status pass
request(srv, u, t, ok) ==
    IF ok THEN [ok |-> TRUE, content |-> srv[u].content, fetched_at |-> t]
    ELSE [ok |-> FALSE]

\* one call of fetch_url_with_time(url): what it returns (r), and the cache and the
\* server after it
fetch_url_with_time(cache, srv, u, t, ok) ==
    IF fresh(cache[u], t)
    THEN [r |-> [network |-> FALSE, ok |-> TRUE, content |-> cache[u].content,
                 fetched_at |-> cache[u].fetched_at, url |-> u, at |-> t, prior |-> srv[u].last],
          cache |-> cache, srv |-> srv]
    ELSE LET got == request(srv, u, t, ok)
         IN IF got.ok
            THEN [r |-> [network |-> TRUE, ok |-> TRUE, content |-> got.content,
                         fetched_at |-> got.fetched_at, url |-> u, at |-> t,
                         prior |-> srv[u].last],
                  cache |-> [cache EXCEPT ![u] = [content |-> got.content,
                                                  fetched_at |-> got.fetched_at,
                                                  expires |-> t + TTL]],
                  srv |-> [srv EXCEPT ![u].last = [at |-> t, content |-> got.content]]]
            ELSE [r |-> [network |-> TRUE, ok |-> FALSE, content |-> "", fetched_at |-> 0,
                         url |-> u, at |-> t, prior |-> srv[u].last],
                  cache |-> cache, srv |-> srv]

\* line 143: the decoded payload
loads(raw) == <<"json", raw>>

\* one call of fetch_json(url), lines 140-143: what it returns (r), the call of
\* fetch_url_with_time it made (inner, None on a hit), and the caches and the server
\* after it.  origin is the time of the network request whose bytes the value was
\* decoded from; the code drops it (the _ of line 142), the model keeps it beside
\* the value.
fetch_json(jcache, cache, srv, u, t, ok) ==
    IF fresh(jcache[u], t)
    THEN [r |-> [ok |-> TRUE, value |-> jcache[u].value, url |-> u, at |-> t,
                 origin |-> jcache[u].origin],
          inner |-> None, jcache |-> jcache, cache |-> cache, srv |-> srv]
    ELSE LET c == fetch_url_with_time(cache, srv, u, t, ok)
         IN IF c.r.ok
            THEN [r |-> [ok |-> TRUE, value |-> loads(c.r.content), url |-> u, at |-> t,
                         origin |-> c.r.fetched_at],
                  inner |-> c.r,
                  jcache |-> [jcache EXCEPT ![u] = [value |-> loads(c.r.content),
                                                    origin |-> c.r.fetched_at,
                                                    expires |-> t + TTL]],
                  cache |-> c.cache, srv |-> c.srv]
            ELSE [r |-> [ok |-> FALSE, value |-> <<>>, url |-> u, at |-> t, origin |-> 0],
                  inner |-> c.r, jcache |-> jcache, cache |-> c.cache, srv |-> c.srv]

(***************************************************************************)
(* The specification of the fetch layer: calls of the two functions on a   *)
(* few URLs while time passes and the served content changes.  ret is the  *)
(* last call: which function, what it returned, and the call of            *)
(* fetch_url_with_time that was made (ret.call, None when fetch_json       *)
(* answered from its own cache).                                           *)
(***************************************************************************)
MaxTicks == 4

TickStep == 20

URLs == {"u1", "u2"}

Contents == {"a", "b"}

CacheInit ==
    /\ now = 0
    /\ server = [u \in URLs |-> [content |-> "a", last |-> None]]
    /\ urlCache = [u \in URLs |-> None]
    /\ jsonCache = [u \in URLs |-> None]
    /\ ret = [fn |-> "none", call |-> None]
    /\ input = None /\ output = None /\ calls = 0
    /\ providers = <<>> /\ answers = <<>> /\ futures = <<>> /\ results = <<>> /\ pc = "idle"
    /\ instances = <<>> /\ mirrorRet = None
    /\ item = None /\ itemRet = None
    /\ session = None /\ clock = 0 /\ lastRun = None

\* time passes
Advance ==
    /\ now < MaxTicks * TickStep
    /\ now' = now + TickStep
    /\ UNCHANGED <<server, urlCache, jsonCache, ret>>

\* the upstream page changes
ServerChange ==
    /\ server["u1"].content = "a"
    /\ server' = [server EXCEPT !["u1"].content = "b"]
    /\ UNCHANGED <<now, urlCache, jsonCache, ret>>

\* a direct call of fetch_url_with_time (lines 217, 321, 338, 396)
FetchUrl ==
    \E u \in URLs, ok \in BOOLEAN :
        LET c == fetch_url_with_time(urlCache, server, u, now, ok)
        IN /\ ret' = [fn |-> "fetch_url_with_time", call |-> c.r]
           /\ urlCache' = c.cache
           /\ server' = c.srv
           /\ UNCHANGED <<now, jsonCache>>

\* a call of fetch_json (lines 173, 198, 249, 274, 301)
FetchJson ==
    \E u \in URLs, ok \in BOOLEAN :
        LET c == fetch_json(jsonCache, urlCache, server, u, now, ok)
        IN /\ ret' = [fn |-> "fetch_json", call |-> c.inner, r |-> c.r]
           /\ jsonCache' = c.jcache
           /\ urlCache' = c.cache
           /\ server' = c.srv
           /\ UNCHANGED now

CacheNext ==
    \/ Advance /\ UNCHANGED <<parseVars, pollVars, mirrorVars, itemVars, crowdVars>>
    \/ ServerChange /\ UNCHANGED <<parseVars, pollVars, mirrorVars, itemVars, crowdVars>>
    \/ FetchUrl /\ UNCHANGED <<parseVars, pollVars, mirrorVars, itemVars, crowdVars>>
    \/ FetchJson /\ UNCHANGED <<parseVars, pollVars, mirrorVars, itemVars, crowdVars>>

SpecCache == CacheInit /\ [][CacheNext]_vars

\* C2: a call of fetch_url_with_time made less than 60 s after the last answered
\* request for the same URL makes no network request and returns the bytes and the
\* fetch timestamp of that request; a call made when no request for the URL was
\* answered in the last 60 s makes a network request.
C2_CacheWindow ==
    ret.call # None =>
        LET c == ret.call
        IN IF c.prior # None /\ c.at - c.prior.at < TTL
           THEN ~c.network /\ c.ok /\ c.content = c.prior.content /\ c.fetched_at = c.prior.at
           ELSE c.network

\* the page changed after it was fetched at time 0; a call 40 s later is answered
\* with the bytes and timestamp of time 0 and makes no request
C2_Witness ==
    /\ ret.call # None /\ ~ret.call.network
    /\ ret.call.url = "u1" /\ ret.call.at = 40 /\ ret.call.fetched_at = 0
    /\ ret.call.content = "a" /\ server["u1"].content = "b"

\* a call 60 s or more after the fetch of time 0 made a second request, which was
\* answered with the changed page
C2_WitnessExpired ==
    /\ ret.call # None /\ ret.call.network /\ ret.call.ok
    /\ ret.call.prior # None /\ ret.call.prior.at = 0 /\ ret.call.at >= TTL
    /\ ret.call.url = "u1" /\ ret.call.content = "b"

\* C19 as stated: the value that a call of fetch_json returns was decoded from the
\* bytes of a network request made at most one window (60 s) before the call.
C19_JsonFreshness ==
    (ret.fn = "fetch_json" /\ ret.r.ok) => ret.r.at - ret.r.origin <= TTL

(***************************************************************************)
(* The poll of the official providers, lines 803-817.  A name is the       *)
(* sequence of its character codes.  answers[i] is what the URL of         *)
(* providers[i] is answered with during the cycle.                         *)
(***************************************************************************)
\* line 148
severity_order == [major |-> 0, degraded |-> 1, unknown |-> 2, info |-> 3, ok |-> 4]

\* line 817: severity_order.get(level, 99)
severity_rank(level) == IF level \in DOMAIN severity_order THEN severity_order[level] ELSE 99

\* str.lower on character codes
lower_name(name) == [i \in DOMAIN name |-> IF name[i] \in 65..90 THEN name[i] + 32 ELSE name[i]]

\* a faulty variant: names are compared as they are written
name_key_as_written(name) == name

\* line 817: r["name"].lower()
name_key(name) == lower_name(name)

\* Python's s <= t on strings
StrLeq(s, t) ==
    LET d == {i \in 1..Min(Len(s), Len(t)) : s[i] # t[i]}
    IN IF d = {} THEN Len(s) <= Len(t) ELSE s[First(d)] < t[First(d)]

\* line 817: the key of a result, and Python's <= on two keys
KeyLeq(a, b) ==
    \/ severity_rank(a.level) < severity_rank(b.level)
    \/ /\ severity_rank(a.level) = severity_rank(b.level)
       /\ StrLeq(name_key(a.name), name_key(b.name))

\* list.sort is stable: x goes after every element whose key is not greater
insert_by_key(sorted, x) ==
    LET k == Cardinality({j \in DOMAIN sorted : KeyLeq(sorted[j], x)})
    IN SubSeq(sorted, 1, k) \o <<x>> \o SubSeq(sorted, k + 1, Len(sorted))

\* line 817
sort_results(rs) ==
    LET f[n \in 0..Len(rs)] == IF n = 0 THEN <<>> ELSE insert_by_key(f[n - 1], rs[n])
    IN f[Len(rs)]

\* line 804; with the 12 providers of lines 92-120 every task has a worker
max_workers(n) == Min(12, IF n > 4 THEN n ELSE 4)

\* a faulty variant: a raised exception is taken for a healthy provider
fut_result_trusting(outcome) ==
    IF outcome.raised THEN [level |-> "ok", details |-> <<>>]
    ELSE [level |-> outcome.level, details |-> outcome.details]

\* lines 810-813: fut.result() or the except branch
fut_result(outcome) ==
    IF outcome.raised THEN [level |-> "unknown", details |-> <<"Unhandled error", outcome.error>>]
    ELSE [level |-> outcome.level, details |-> outcome.details]

\* line 814: {**p, "level": level, "details": details}
source_result(p, lr) ==
    [name |-> p.name, kind |-> p.kind, note |-> p.note, level |-> lr.level, details |-> lr.details]

(***************************************************************************)
(* The specification of one poll cycle: the tasks are submitted (line      *)
(* 807), each worker runs summarize on its provider, the main thread       *)
(* collects the futures in the order they complete (lines 808-814), and    *)
(* the collected list is sorted (line 817).                                *)
(***************************************************************************)
MaxProviders == 3

\* "b", "Ab", "ab", "a", "B"
NamePool == << <<98>>, <<65, 98>>, <<97, 98>>, <<97>>, <<66>> >>

NameShifts == 0..4

\* a kind of provider and what its URL is answered with: the five levels, a fetch
\* that fails, and a payload on which the parser raises
Scenarios ==
    { [kind |-> "statuspage", note |-> "",
       answer |-> Fetched(JDict([status |-> JDict([indicator |-> JStr(<<"major">>)])]))],
      [kind |-> "gcp_incidents", note |-> "", answer |-> Fetched(JList(<< EmptyDict >>))],
      [kind |-> "statuspage", note |-> "", answer |-> FetchFailed],
      [kind |-> "link_only", note |-> "link-only", answer |-> FetchFailed],
      [kind |-> "statuspage", note |-> "",
       answer |-> Fetched(JDict([status |-> JDict([indicator |-> JStr(<<"none">>)])]))],
      [kind |-> "statuspage", note |-> "", answer |-> Fetched(JList(<<>>))] }

PollInit ==
    /\ \E n \in 1..MaxProviders, shift \in NameShifts : \E sc \in [1..n -> Scenarios] :
        /\ providers = [i \in 1..n |->
                [name |-> NamePool[((i - 1 + shift) % Len(NamePool)) + 1],
                 kind |-> sc[i].kind, note |-> sc[i].note]]
        /\ answers = [i \in 1..n |-> sc[i].answer]
    /\ futures = <<>>
    /\ results = <<>>
    /\ pc = "start"
    /\ input = None /\ output = None /\ calls = 0
    /\ now = 0 /\ server = None /\ urlCache = None /\ jsonCache = None /\ ret = None
    /\ instances = <<>> /\ mirrorRet = None
    /\ item = None /\ itemRet = None
    /\ session = None /\ clock = 0 /\ lastRun = None

\* line 807: one task per provider
Submit ==
    /\ pc = "start"
    /\ futures' = [i \in DOMAIN providers |-> [state |-> "pending"]]
    /\ pc' = "collecting"
    /\ UNCHANGED <<providers, answers, results>>

\* a worker thread runs summarize(p) to its end
WorkerRun ==
    \E i \in DOMAIN futures :
        /\ pc = "collecting"
        /\ futures[i].state = "pending"
        /\ futures' = [futures EXCEPT ![i] =
                [state |-> "done", outcome |-> summarize(providers[i], answers[i])]]
        /\ UNCHANGED <<providers, answers, results, pc>>

\* lines 808-814: as_completed yields a completed future, its result is appended
Collect ==
    \E i \in DOMAIN futures :
        /\ pc = "collecting"
        /\ futures[i].state = "done"
        /\ results' = Append(results, source_result(providers[i], fut_result(futures[i].outcome)))
        /\ futures' = [futures EXCEPT ![i] = [state |-> "collected"]]
        /\ UNCHANGED <<providers, answers, pc>>

\* line 817, once as_completed is exhausted
Sort ==
    /\ pc = "collecting"
    /\ \A i \in DOMAIN futures : futures[i].state = "collected"
    /\ results' = sort_results(results)
    /\ pc' = "done"
    /\ UNCHANGED <<providers, answers, futures>>

PollNext ==
    \/ Submit /\ UNCHANGED <<parseVars, cacheVars, mirrorVars, itemVars, crowdVars>>
    \/ WorkerRun /\ UNCHANGED <<parseVars, cacheVars, mirrorVars, itemVars, crowdVars>>
    \/ Collect /\ UNCHANGED <<parseVars, cacheVars, mirrorVars, itemVars, crowdVars>>
    \/ Sort /\ UNCHANGED <<parseVars, cacheVars, mirrorVars, itemVars, crowdVars>>

SpecPoll == PollInit /\ [][PollNext]_vars

\* the positions of the results that belong to the descriptor at position i
ResultsOf(i) == {j \in DOMAIN results : results[j].name = providers[i].name}

Outcome(i) == summarize(providers[i], answers[i])

\* C1: under every interleaving of the workers, the cycle ends with exactly N
\* results, one per descriptor.  A provider whose summarize call raises has level
\* unknown and a detail that names the error; every other result is the level and
\* the details that its own summarize call returned, whatever the other providers did.
C1_PollIsolation ==
    pc = "done" =>
        /\ Len(results) = Len(providers)
        /\ \A i \in DOMAIN providers :
            /\ Cardinality(ResultsOf(i)) = 1
            /\ LET r == results[First(ResultsOf(i))]
               IN /\ r.kind = providers[i].kind /\ r.note = providers[i].note
                  /\ IF Outcome(i).raised
                     THEN r.level = "unknown" /\ r.details = <<"Unhandled error", Outcome(i).error>>
                     ELSE r.level = Outcome(i).level /\ r.details = Outcome(i).details

\* a finished cycle of three providers: the first one's parser raised, the second one's
\* fetch failed, and the third is reported as major
C1_Witness ==
    /\ pc = "done" /\ Len(providers) = 3 /\ Len(results) = 3
    /\ Outcome(1).raised
    /\ ~answers[2].ok /\ providers[2].kind = "statuspage"
    /\ ~Outcome(3).raised /\ Outcome(3).level = "major"
    /\ results[1].name = providers[3].name /\ results[1].level = "major"

Ranked(rs) ==
    \A a, b \in DOMAIN rs : a < b =>
        /\ severity_rank(rs[a].level) <= severity_rank(rs[b].level)
        /\ severity_rank(rs[a].level) = severity_rank(rs[b].level) =>
                StrLeq(lower_name(rs[a].name), lower_name(rs[b].name))

IsPermutation(rs, qs) ==
    /\ Len(rs) = Len(qs)
    /\ \E f \in [DOMAIN rs -> DOMAIN rs] :
        /\ \A a, b \in DOMAIN rs : a # b => f[a] # f[b]
        /\ \A a \in DOMAIN rs : rs[a].name = qs[f[a]].name /\ rs[a] = qs[f[a]]

\* C6: the step that ranks the collected results leaves a list in which, for every
\* two results a before b, the rank of a's level is at most the rank of b's level,
\* with major < degraded < unknown < info < ok, and a's lower-cased name is at most
\* b's when the levels are equal; the ranked list is a permutation of the collected
\* results.
C6_Ranked ==
    [][(pc = "collecting" /\ pc' = "done") => (Ranked(results') /\ IsPermutation(results', results))]_vars

\* a ranked list of three results with two levels, in which the two results of the
\* same level are in the order of their lower-cased names ("a" before "B") although
\* the code of "B" is the smaller one
C6_Witness ==
    /\ pc = "done" /\ Len(results) = 3
    /\ severity_rank(results[1].level) < severity_rank(results[2].level)
    /\ results[2].level = results[3].level
    /\ results[2].name = <<97>> /\ results[3].name = <<66>>

\* the results of the providers in the order of the descriptor list
InListOrder ==
    [i \in DOMAIN providers |-> source_result(providers[i], fut_result(Outcome(i)))]

\* no two descriptors have names that are equal once lower-cased
DistinctLowerNames ==
    \A i, j \in DOMAIN providers :
        i # j => lower_name(providers[i].name) # lower_name(providers[j].name)

\* C18 as stated: the ranked list of a finished cycle is fixed by the descriptor list and
\* the providers' outcomes alone, whatever the order of completion was; the names of the
\* descriptors are pairwise distinct and may differ in letter case only.
C18_Original ==
    pc = "done" => results = sort_results(InListOrder)

\* C18 for names that stay distinct once lower-cased: the ranked list of a finished
\* cycle is fixed by the descriptor list and the providers' outcomes alone, whatever
\* the order in which the workers completed and were collected.
C18_Deterministic ==
    (pc = "done" /\ DistinctLowerNames) => results = sort_results(InListOrder)

\* a finished cycle of three providers of one level, named "ab", "a" and "B" in the
\* descriptor list: the ranked list has "a", "ab", "B"
C18_Witness ==
    /\ pc = "done" /\ Len(results) = 3 /\ DistinctLowerNames
    /\ results[1].level = results[3].level
    /\ results[1].name = providers[2].name
    /\ results[2].name = providers[1].name
    /\ results[3].name = providers[3].name

====
